---- MODULE Spec2Model ----
(***************************************************************************)
(* Order lifecycle, file association and identity/token handling of the    *)
(* Raman Printers order tracker, modelled from the API route handlers.     *)
(*                                                                         *)
(* Every handler is a request that runs against the store (the User and    *)
(* Order tables).  A handler is suspended at each store call (await        *)
(* prisma...), so one action of the model is one store call together with  *)
(* the synchronous code around it; requests that still have a store call   *)
(* to make are kept in `inflight` and interleave freely.                   *)
(***************************************************************************)
EXTENDS Integers, Sequences, FiniteSets, Bags, TLC

VARIABLES users, orders, inflight, last, blobs, session, retired

\* users, orders: the User and Order tables.  inflight: the requests suspended
\* at a store call.  last: the response sent last.  blobs: the names of the
\* files in the upload store.  session: the administrator's browser holds the
\* admin-session cookie.  retired: history of the tokens a rotation replaced.
vars == <<users, orders, inflight, last, blobs, session, retired>>

(***************************************************************************)
(* Bounds of the model.                                                    *)
(***************************************************************************)
MaxOrders == 1
MaxInflight == 2
MaxFiles == 2
MaxUploads == 3

(***************************************************************************)
(* Program constants.                                                      *)
(***************************************************************************)
PRICE_PER_PAGE == 5
maxAttempts == 3
MinTokenLen == 10
MaxNameLen == 100

(***************************************************************************)
(* Value domains.  Phones, tokens and file names are opaque strings.       *)
(***************************************************************************)
PhoneA == "9876543210"
PhoneB == "9876543211"
BadPhone == "12345"
Phones == {PhoneA, PhoneB}

\* Values `TK-${Date.now()}-${random}` can take; two calls may return the same one.
Tokens ==
  {"TK-1700000000001-aaaaaaaaa", "TK-1700000000002-bbbbbbbbb",
   "TK-1700000000003-ccccccccc"}
ShortToken == "TK-1"

\* String length of the token values used as inputs (validateTokenId reads it).
TokenLen(t) ==
  CASE t = "" -> 0
    [] t = ShortToken -> 4
    [] OTHER -> 26


\* File descriptors as the client posts them; pages = 0 stands for a missing
\* or zero page count (both are falsy in `f.pages || 1`).
Descriptors ==
  { [name |-> "a.pdf", pages |-> 3],
    [name |-> "b.pdf", pages |-> 2],
    [name |-> "b.pdf", pages |-> 0] }
FileNames == {"a.pdf", "b.pdf"}

FileLists == UNION { [1..n -> Descriptors] : n \in 0..MaxFiles }

(***************************************************************************)
(* Responses: createErrorResponse(error, code, status, {suggestion}) and   *)
(* the success envelopes.  `note` carries the part of the message or       *)
(* suggestion that varies with the state.                                  *)
(***************************************************************************)
createErrorResponse(code, status, note) ==
  [http |-> status, code |-> code, note |-> note]

Success(status, note) == [http |-> status, code |-> "OK", note |-> note]

\* A request that is suspended at a store call has not answered yet.
NoResponse == [http |-> 0, code |-> "-", note |-> ""]

(***************************************************************************)
(* The store: the unique indexes of the User table.                        *)
(***************************************************************************)
\* Fault: the User table without its unique index on phone.
NoPhoneIndex(us, phone, self) == FALSE

\* CREATE UNIQUE INDEX "User_phone_key": a row other than `self` has `phone`.
PhoneIndexHit(us, phone, self) ==
  \E i \in DOMAIN us : i # self /\ us[i].phone = phone

\* Fault: the User table without its unique index on tokenId.
NoTokenIndex(us, tokenId, self) == FALSE

\* CREATE UNIQUE INDEX "User_tokenId_key": a row other than `self` has `tokenId`.
TokenIndexHit(us, tokenId, self) ==
  \E i \in DOMAIN us : i # self /\ us[i].tokenId = tokenId

\* The P2002 target of writing (phone, tokenId) into row `self` (0: a new row),
\* "" when no unique index is violated.  Indexes are checked in creation order.
UniqueViolation(us, phone, tokenId, self) ==
  IF PhoneIndexHit(us, phone, self) THEN "phone"
  ELSE IF TokenIndexHit(us, tokenId, self) THEN "tokenId"
  ELSE ""

\* prisma.user.findUnique({where: {phone}}): the row id, 0 when there is none.
FindUserByPhone(us, phone) ==
  IF \E i \in DOMAIN us : us[i].phone = phone
  THEN CHOOSE i \in DOMAIN us : us[i].phone = phone
  ELSE 0

\* prisma.user.findUnique({where: {tokenId}}): the row id, 0 when there is none.
FindUserByToken(us, tokenId) ==
  IF \E i \in DOMAIN us : us[i].tokenId = tokenId
  THEN CHOOSE i \in DOMAIN us : us[i].tokenId = tokenId
  ELSE 0

(***************************************************************************)
(* handlePrismaError: the response for a store error code.                 *)
(***************************************************************************)
handlePrismaError(code, target) ==
  IF code = "P2002"
  THEN createErrorResponse(
         IF target = "phone" THEN "PHONE_EXISTS" ELSE "DUPLICATE_FILE", 409, target)
  ELSE IF code = "P2025" THEN createErrorResponse("ORDER_NOT_FOUND", 404, "")
  ELSE IF code = "P2003" THEN createErrorResponse("INVALID_REFERENCE", 400, "")
  ELSE createErrorResponse("DATABASE_OPERATION_FAILED", 500, "")

(***************************************************************************)
(* Requests suspended at a store call.  One record shape serves every      *)
(* handler; a handler uses the fields it keeps in local variables.         *)
(***************************************************************************)
NoReq ==
  [op |-> "", stage |-> "", phone |-> "", tokenId |-> "", uid |-> 0,
   attempts |-> 0, oid |-> 0, fileName |-> "", files |-> <<>>,
   copies |-> 0, pages |-> 0, seen |-> ""]

Room == BagCardinality(inflight) < MaxInflight

Suspend(r) == inflight' = inflight (+) SetToBag({r})

Resume(r) == inflight' = inflight (-) SetToBag({r})

\* The payload of a response: the token it returns, the orders it lists.
WithToken(resp, tokenId) == [http |-> resp.http, code |-> resp.code,
                             note |-> resp.note, token |-> tokenId]

WithItems(resp, items) == [http |-> resp.http, code |-> resp.code,
                           note |-> resp.note, items |-> items]

Answer(op, oid, resp) ==
  last' = [op |-> op, oid |-> oid, http |-> resp.http, code |-> resp.code,
           note |-> resp.note,
           token |-> IF "token" \in DOMAIN resp THEN resp.token ELSE "",
           items |-> IF "items" \in DOMAIN resp THEN resp.items ELSE {}]

\* validateCuid: order id 0 stands for an id that is not a well-formed cuid;
\* a well-formed id beyond the rows created so far names no order.
validateCuid(oid) == oid # 0

OrderExists(os, oid) == oid \in DOMAIN os

(***************************************************************************)
(* File names.  A name is a string; the functions that read its characters *)
(* work on the sequence of its characters, each a one-character string.    *)
(***************************************************************************)
\* The characters /[a-zA-Z0-9.-]/ matches.
AllowedChars ==
  {"a", "b", "c", "d", "e", "f", "g", "h", "i", "j", "k", "l", "m", "n", "o", "p",
   "q", "r", "s", "t", "u", "v", "w", "x", "y", "z",
   "A", "B", "C", "D", "E", "F", "G", "H", "I", "J", "K", "L", "M", "N", "O", "P",
   "Q", "R", "S", "T", "U", "V", "W", "X", "Y", "Z",
   "0", "1", "2", "3", "4", "5", "6", "7", "8", "9", ".", "-"}

Digits == <<"0", "1", "2", "3", "4", "5", "6", "7", "8", "9">>

RECURSIVE Join(_)
Join(cs) == IF cs = <<>> THEN "" ELSE Head(cs) \o Join(Tail(cs))

\* .replace(/[^a-zA-Z0-9.-]/g, '_')
ReplaceChars(cs) == [i \in DOMAIN cs |-> IF cs[i] \in AllowedChars THEN cs[i] ELSE "_"]

\* .replace(/\.{2,}/g, '.')
RECURSIVE CollapseDots(_)
CollapseDots(cs) ==
  IF cs = <<>> THEN <<>>
  ELSE IF Head(cs) = "." /\ Len(cs) >= 2 /\ cs[2] = "." THEN CollapseDots(Tail(cs))
  ELSE <<Head(cs)>> \o CollapseDots(Tail(cs))

\* sanitizeFilename on the characters of the name; .substring(0, 100) last.
SanitizeChars(cs) ==
  LET collapsed == CollapseDots(ReplaceChars(cs))
  IN  SubSeq(collapsed, 1, IF Len(collapsed) < MaxNameLen THEN Len(collapsed) ELSE MaxNameLen)

\* path.extname: from the last dot to the end; empty when there is no dot or
\* the only dot is the first character.
ExtName(cs) ==
  LET dots == { i \in DOMAIN cs : cs[i] = "." }
      lastDot == IF dots = {} THEN 0 ELSE CHOOSE i \in dots : \A j \in dots : j <= i
  IN  IF lastDot <= 1 THEN <<>> ELSE SubSeq(cs, lastDot, Len(cs))

\* path.basename(name, ext)
BaseName(cs) == SubSeq(cs, 1, Len(cs) - Len(ExtName(cs)))

RECURSIVE Decimal(_)
Decimal(n) ==
  IF n < 10 THEN <<Digits[n + 1]>> ELSE Decimal(n \div 10) \o <<Digits[(n % 10) + 1]>>

\* `${baseName} (${counter})${fileExtension}`
Suffixed(cs, counter) ==
  BaseName(cs) \o <<" ", "(">> \o Decimal(counter) \o <<")">> \o ExtName(cs)

\* The loop `while (existsSync(join(userDir, finalFileName)))` of the upload:
\* the sanitized name, or the first suffixed name that is not in the directory.
RECURSIVE FinalFileName(_, _, _)
FinalFileName(cs, counter, existing) ==
  LET candidate == IF counter = 0 THEN cs ELSE Suffixed(cs, counter)
  IN  IF Join(candidate) \in existing
      THEN FinalFileName(cs, counter + 1, existing)
      ELSE candidate

\* Names as clients send them to the upload.
RawNames ==
  { <<"a", ".", "p", "d", "f">>, <<"b", ".", "p", "d", "f">>,
    <<"m", "y", " ", "f", ".", "p", "d", "f">>, <<"a", ".", ".", "p", "d", "f">> }

\* The names that occur: sent, sanitized, and suffixed by the upload.
NameUniverse ==
  RawNames \cup { SanitizeChars(cs) : cs \in RawNames }
    \cup { Suffixed(SanitizeChars(cs), n) : cs \in RawNames, n \in 1..MaxUploads }

CharsOf(name) == CHOOSE cs \in NameUniverse : Join(cs) = name

sanitizeTable ==
  [name \in { Join(cs) : cs \in NameUniverse } |-> Join(SanitizeChars(CharsOf(name)))]

\* sanitizeFilename(filename)
sanitizeFilename(name) == sanitizeTable[name]

(***************************************************************************)
(* DELETE /api/orders/{id}/files/{fileName}                                *)
(***************************************************************************)
\* files.filter((f) => f.name !== fileName)
RemoveByName(files, fileName) ==
  SelectSeq(files, LAMBDA f : f.name # fileName)

\* updatedFiles.reduce((sum, f) => sum + (f.pages || 1), 0)
RECURSIVE SumPages(_)
SumPages(files) ==
  IF files = <<>> THEN 0
  ELSE (IF Head(files).pages = 0 THEN 1 ELSE Head(files).pages) + SumPages(Tail(files))

\* The checks between findUnique and the storage delete; NoResponse: all passed.
DetachCheck(os, oid, fileName) ==
  IF ~validateCuid(oid) THEN createErrorResponse("VALIDATION", 400, "id")
  ELSE IF sanitizeFilename(fileName) # fileName
    THEN createErrorResponse("VALIDATION", 400, "Invalid file name format")
  ELSE IF ~OrderExists(os, oid) THEN createErrorResponse("ORDER_NOT_FOUND", 404, "")
  ELSE IF os[oid].status # "PENDING"
    THEN createErrorResponse("ORDER_CANNOT_CANCEL", 400,
                             "Can only remove files from pending orders")
  ELSE IF ~(\E i \in DOMAIN os[oid].files : os[oid].files[i].name = fileName)
    THEN createErrorResponse("NOT_FOUND", 404, "File not found in order")
  ELSE NoResponse

\* Fault: the last-file update empties the list and leaves the status alone.
DetachUpdateKeepsStatus(row, r) ==
  LET updatedFiles == RemoveByName(r.files, r.fileName)
      totalPages == SumPages(updatedFiles)
  IN  IF Len(updatedFiles) = 0
      THEN [row EXCEPT !.files = <<>>]
      ELSE [row EXCEPT !.files = updatedFiles, !.pages = totalPages,
                       !.totalAmount = totalPages * r.copies * 5]

\* Fault: the amount is recomputed and the page count is left as declared.
DetachUpdateKeepsPages(row, r) ==
  LET updatedFiles == RemoveByName(r.files, r.fileName)
      totalPages == SumPages(updatedFiles)
  IN  IF Len(updatedFiles) = 0
      THEN [row EXCEPT !.files = <<>>, !.status = "CANCELLED"]
      ELSE [row EXCEPT !.files = updatedFiles,
                       !.totalAmount = totalPages * r.copies * 5]

\* Fault: the last-file update also recomputes pages and amount, to zero.
DetachUpdateZeroesAmount(row, r) ==
  LET updatedFiles == RemoveByName(r.files, r.fileName)
      totalPages == SumPages(updatedFiles)
  IN  IF Len(updatedFiles) = 0
      THEN [row EXCEPT !.files = <<>>, !.status = "CANCELLED",
                       !.pages = 0, !.totalAmount = 0]
      ELSE [row EXCEPT !.files = updatedFiles, !.pages = totalPages,
                       !.totalAmount = totalPages * r.copies * 5]

\* Fault: the recomputed amount leaves out the number of copies.
DetachUpdateIgnoresCopies(row, r) ==
  LET updatedFiles == RemoveByName(r.files, r.fileName)
      totalPages == SumPages(updatedFiles)
  IN  IF Len(updatedFiles) = 0
      THEN [row EXCEPT !.files = <<>>, !.status = "CANCELLED"]
      ELSE [row EXCEPT !.files = updatedFiles, !.pages = totalPages,
                       !.totalAmount = totalPages * 5]

\* The data of the prisma.order.update the handler issues, applied to the row
\* as it is when the update runs; `r` holds the order the handler read.
DetachUpdate(row, r) ==
  LET updatedFiles == RemoveByName(r.files, r.fileName)
      totalPages == SumPages(updatedFiles)
  IN  IF Len(updatedFiles) = 0
      THEN [row EXCEPT !.files = <<>>, !.status = "CANCELLED"]
      ELSE [row EXCEPT !.files = updatedFiles, !.pages = totalPages,
                       !.totalAmount = totalPages * r.copies * 5]

DetachResponse(r) ==
  IF Len(RemoveByName(r.files, r.fileName)) = 0
  THEN Success(200, "File removed and order cancelled (no files remaining)")
  ELSE Success(200, "File removed successfully")

\* Fault: the stored file is deleted before the order is checked.
DetachStartDeletesFirst(oid, fileName) ==
  LET resp == DetachCheck(orders, oid, fileName)
  IN  /\ resp = NoResponse => Room
      /\ IF resp = NoResponse
         THEN Suspend([NoReq EXCEPT !.op = "detach", !.oid = oid,
                         !.fileName = fileName, !.files = orders[oid].files,
                         !.copies = orders[oid].copies, !.phone = orders[oid].phone,
                         !.seen = orders[oid].status])
         ELSE UNCHANGED inflight
      /\ Answer("detach", oid, resp)
      /\ blobs' = blobs \ {fileName}
      /\ UNCHANGED <<users, orders, session>>

\* findUnique and the checks on the order read.
DetachStart(oid, fileName) ==
  LET resp == DetachCheck(orders, oid, fileName)
  IN  /\ resp = NoResponse => Room
      /\ IF resp = NoResponse
         THEN Suspend([NoReq EXCEPT !.op = "detach", !.oid = oid,
                         !.fileName = fileName, !.files = orders[oid].files,
                         !.copies = orders[oid].copies, !.phone = orders[oid].phone,
                         !.seen = orders[oid].status])
         ELSE UNCHANGED inflight
      /\ Answer("detach", oid, resp)
      /\ UNCHANGED <<users, orders, blobs, session>>

\* Fault: a failed storage delete ends the request before the order update.
DetachWriteNeedsDelete(r) ==
  /\ r.op = "detach"
  /\ BagIn(r, inflight)
  /\ Resume(r)
  /\ \E fileDeleted \in BOOLEAN :
       /\ blobs' = IF fileDeleted THEN blobs \ {r.fileName} ELSE blobs
       /\ orders' = IF fileDeleted
                    THEN [orders EXCEPT ![r.oid] = DetachUpdate(orders[r.oid], r)]
                    ELSE orders
       /\ Answer("detach", r.oid,
                 IF fileDeleted THEN DetachResponse(r)
                 ELSE createErrorResponse("SERVER", 500, "Failed to delete file"))
  /\ UNCHANGED <<users, session>>

\* The storage delete (its failure is swallowed) and the order update.
DetachWrite(r) ==
  /\ r.op = "detach"
  /\ BagIn(r, inflight)
  /\ Resume(r)
  /\ \E fileDeleted \in BOOLEAN :
       blobs' = IF fileDeleted THEN blobs \ {r.fileName} ELSE blobs
  /\ orders' = [orders EXCEPT ![r.oid] = DetachUpdate(orders[r.oid], r)]
  /\ Answer("detach", r.oid, DetachResponse(r))
  /\ UNCHANGED <<users, session>>

(***************************************************************************)
(* POST /api/orders/{id}/cancel                                            *)
(***************************************************************************)
\* Fault: the cancel checks without the payment test.
CancelCheckNoPayment(os, oid) ==
  IF ~validateCuid(oid) THEN createErrorResponse("VALIDATION", 400, "id")
  ELSE IF ~OrderExists(os, oid) THEN createErrorResponse("ORDER_NOT_FOUND", 404, "")
  ELSE IF os[oid].status # "PENDING"
    THEN createErrorResponse("ORDER_CANNOT_CANCEL", 400,
           IF os[oid].status = "COMPLETED"
             THEN "This order has already been completed"
           ELSE IF os[oid].status = "CANCELLED"
             THEN "This order has already been cancelled"
           ELSE "Only pending orders can be cancelled")
  ELSE NoResponse

\* Fault: the cancel checks with one message for every non-pending status.
CancelCheckOneMessage(os, oid) ==
  IF ~validateCuid(oid) THEN createErrorResponse("VALIDATION", 400, "id")
  ELSE IF ~OrderExists(os, oid) THEN createErrorResponse("ORDER_NOT_FOUND", 404, "")
  ELSE IF os[oid].status # "PENDING"
    THEN createErrorResponse("ORDER_CANNOT_CANCEL", 400,
                             "Only pending orders can be cancelled")
  ELSE IF os[oid].paymentStatus = "VERIFIED" \/ os[oid].paymentStatus = "PAID"
    THEN createErrorResponse("PAYMENT_REQUIRED", 400, "Cannot cancel paid order")
  ELSE NoResponse

\* Fault: the cancel checks without the status test.
CancelCheckAnyStatus(os, oid) ==
  IF ~validateCuid(oid) THEN createErrorResponse("VALIDATION", 400, "id")
  ELSE IF ~OrderExists(os, oid) THEN createErrorResponse("ORDER_NOT_FOUND", 404, "")
  ELSE IF os[oid].paymentStatus = "VERIFIED" \/ os[oid].paymentStatus = "PAID"
    THEN createErrorResponse("PAYMENT_REQUIRED", 400, "Cannot cancel paid order")
  ELSE NoResponse

CancelCheck(os, oid) ==
  IF ~validateCuid(oid) THEN createErrorResponse("VALIDATION", 400, "id")
  ELSE IF ~OrderExists(os, oid) THEN createErrorResponse("ORDER_NOT_FOUND", 404, "")
  ELSE IF os[oid].status # "PENDING"
    THEN createErrorResponse("ORDER_CANNOT_CANCEL", 400,
           IF os[oid].status = "COMPLETED"
             THEN "This order has already been completed"
           ELSE IF os[oid].status = "CANCELLED"
             THEN "This order has already been cancelled"
           ELSE "Only pending orders can be cancelled")
  ELSE IF os[oid].paymentStatus = "VERIFIED" \/ os[oid].paymentStatus = "PAID"
    THEN createErrorResponse("PAYMENT_REQUIRED", 400, "Cannot cancel paid order")
  ELSE NoResponse

\* data: { status: 'CANCELLED', updatedAt }
CancelUpdate(row) == [row EXCEPT !.status = "CANCELLED"]

CancelStart(oid) ==
  LET resp == CancelCheck(orders, oid)
  IN  /\ resp = NoResponse => Room
      /\ IF resp = NoResponse
         THEN Suspend([NoReq EXCEPT !.op = "cancel", !.oid = oid,
                         !.seen = orders[oid].status])
         ELSE UNCHANGED inflight
      /\ Answer("cancel", oid, resp)
      /\ UNCHANGED <<users, orders, blobs, session>>

CancelWrite(r) ==
  /\ r.op = "cancel"
  /\ BagIn(r, inflight)
  /\ Resume(r)
  /\ orders' = [orders EXCEPT ![r.oid] = CancelUpdate(orders[r.oid])]
  /\ Answer("cancel", r.oid, Success(200, "Order cancelled successfully"))
  /\ UNCHANGED <<users, blobs, session>>

(***************************************************************************)
(* PATCH /api/orders?id=  and  PATCH /api/admin/orders (bulk)              *)
(* A field that is not supplied is "" (falsy, like undefined).             *)
(***************************************************************************)
validStatuses == {"PENDING", "COMPLETED", "CANCELLED"}
validPaymentStatuses == {"PENDING", "PAID", "VERIFIED"}

\* Fault: the PATCH checks without the test of status against validStatuses.
PatchCheckNoStatusEnum(os, oid, status, paymentStatus) ==
  IF ~validateCuid(oid) THEN createErrorResponse("VALIDATION", 400, "id")
  ELSE IF status = "" /\ paymentStatus = ""
    THEN createErrorResponse("MISSING_FIELDS", 400, "Status or paymentStatus is required")
  ELSE IF paymentStatus # "" /\ paymentStatus \notin validPaymentStatuses
    THEN createErrorResponse("VALIDATION", 400, "paymentStatus")
  ELSE IF ~OrderExists(os, oid) THEN createErrorResponse("ORDER_NOT_FOUND", 404, "")
  ELSE Success(200, "Order updated successfully")

PatchCheck(os, oid, status, paymentStatus) ==
  IF ~validateCuid(oid) THEN createErrorResponse("VALIDATION", 400, "id")
  ELSE IF status = "" /\ paymentStatus = ""
    THEN createErrorResponse("MISSING_FIELDS", 400, "Status or paymentStatus is required")
  ELSE IF status # "" /\ status \notin validStatuses
    THEN createErrorResponse("VALIDATION", 400, "status")
  ELSE IF paymentStatus # "" /\ paymentStatus \notin validPaymentStatuses
    THEN createErrorResponse("VALIDATION", 400, "paymentStatus")
  ELSE IF ~OrderExists(os, oid) THEN createErrorResponse("ORDER_NOT_FOUND", 404, "")
  ELSE Success(200, "Order updated successfully")

\* updateData: only the supplied fields.
PatchUpdate(row, status, paymentStatus) ==
  [row EXCEPT !.status = IF status # "" THEN status ELSE @,
              !.paymentStatus = IF paymentStatus # "" THEN paymentStatus ELSE @]

AdminUpdate(oid, status, paymentStatus) ==
  LET resp == PatchCheck(orders, oid, status, paymentStatus)
  IN  /\ orders' = IF resp.code = "OK"
                   THEN [orders EXCEPT ![oid] = PatchUpdate(orders[oid], status, paymentStatus)]
                   ELSE orders
      /\ Answer("adminUpdate", oid, resp)
      /\ UNCHANGED <<users, inflight, blobs, session>>

BulkCheck(orderIds, status, paymentStatus) ==
  IF orderIds = {} THEN createErrorResponse("INVALID_ORDER_ID", 400, "orderIds")
  ELSE IF \E oid \in orderIds : ~validateCuid(oid)
    THEN createErrorResponse("INVALID_ORDER_ID", 400, "orderIds")
  ELSE IF status # "" /\ status \notin validStatuses
    THEN createErrorResponse("INVALID_STATUS", 400, "updates.status")
  ELSE IF paymentStatus # "" /\ paymentStatus \notin validPaymentStatuses
    THEN createErrorResponse("INVALID_PAYMENT_STATUS", 400, "updates.paymentStatus")
  ELSE Success(200, "Successfully updated")

\* prisma.order.updateMany({where: {id: {in: orderIds}}, data: updateData})
BulkUpdate(orderIds, status, paymentStatus) ==
  LET resp == BulkCheck(orderIds, status, paymentStatus)
  IN  /\ orders' = IF resp.code = "OK"
                   THEN [oid \in DOMAIN orders |->
                           IF oid \in orderIds
                           THEN PatchUpdate(orders[oid], status, paymentStatus)
                           ELSE orders[oid]]
                   ELSE orders
      /\ Answer("bulkUpdate", 0, resp)
      /\ UNCHANGED <<users, inflight, blobs, session>>


(***************************************************************************)
(* POST /api/token: issue or rotate the token of a phone number            *)
(***************************************************************************)
\* validatePhone: a 10-digit number once the non-digits are dropped.
validatePhone(phone) == phone \in Phones

\* Validation and findUnique({where: {phone}}).
TokenStart(phone) ==
  LET ok == validatePhone(phone)
  IN  /\ ok => Room
      /\ IF ok
         THEN Suspend([NoReq EXCEPT !.op = "token", !.phone = phone,
                 !.stage = IF FindUserByPhone(users, phone) # 0 THEN "rotate" ELSE "create"])
         ELSE UNCHANGED inflight
      /\ Answer("token", 0,
                IF ok THEN NoResponse ELSE createErrorResponse("PHONE_INVALID", 400, "phone"))
      /\ UNCHANGED <<users, orders, blobs, session>>

\* The catch block of both retry loops: after attempts++, retry on P2002 while
\* attempts < maxAttempts, else return handlePrismaError(error).
RetryAfterError(attempts) == attempts < maxAttempts

\* Fault: the rotation writes the whole row as a new identity has it.
TokenAttemptResetsVerified(r, tokenId) ==
  LET self == IF r.stage = "rotate" THEN FindUserByPhone(users, r.phone) ELSE 0
      target == UniqueViolation(users, r.phone, tokenId, self)
  IN  /\ r.op = "token"
      /\ BagIn(r, inflight)
      /\ IF target = ""
         THEN /\ Resume(r)
              /\ users' = IF r.stage = "rotate"
                          THEN [users EXCEPT ![self].tokenId = tokenId,
                                             ![self].isVerified = FALSE]
                          ELSE Append(users, [phone |-> r.phone, tokenId |-> tokenId,
                                              isVerified |-> FALSE])
              /\ Answer("token", 0,
                        WithToken(Success(200, IF r.stage = "rotate"
                                               THEN "Token rotated successfully"
                                               ELSE "New user created with token"),
                                  tokenId))
         ELSE IF RetryAfterError(r.attempts + 1)
         THEN /\ inflight' = (inflight (-) SetToBag({r})) (+)
                   SetToBag({[r EXCEPT !.attempts = r.attempts + 1]})
              /\ UNCHANGED users
              /\ Answer("token", 0, NoResponse)
         ELSE /\ Resume(r)
              /\ UNCHANGED users
              /\ Answer("token", 0, handlePrismaError("P2002", target))
      /\ UNCHANGED <<orders, blobs, session>>

\* Fault: the rotation also rewrites the token stored on the identity's orders.
TokenAttemptRewritesOrders(r, tokenId) ==
  LET self == IF r.stage = "rotate" THEN FindUserByPhone(users, r.phone) ELSE 0
      target == UniqueViolation(users, r.phone, tokenId, self)
  IN  /\ r.op = "token"
      /\ BagIn(r, inflight)
      /\ IF target = ""
         THEN /\ Resume(r)
              /\ users' = IF r.stage = "rotate"
                          THEN [users EXCEPT ![self].tokenId = tokenId]
                          ELSE Append(users, [phone |-> r.phone, tokenId |-> tokenId,
                                              isVerified |-> FALSE])
              /\ orders' = [oid \in DOMAIN orders |->
                              IF orders[oid].userId = self
                              THEN [orders[oid] EXCEPT !.tokenId = tokenId]
                              ELSE orders[oid]]
              /\ Answer("token", 0,
                        WithToken(Success(200, IF r.stage = "rotate"
                                               THEN "Token rotated successfully"
                                               ELSE "New user created with token"),
                                  tokenId))
         ELSE IF RetryAfterError(r.attempts + 1)
         THEN /\ inflight' = (inflight (-) SetToBag({r})) (+)
                   SetToBag({[r EXCEPT !.attempts = r.attempts + 1]})
              /\ UNCHANGED <<users, orders>>
              /\ Answer("token", 0, NoResponse)
         ELSE /\ Resume(r)
              /\ UNCHANGED <<users, orders>>
              /\ Answer("token", 0, handlePrismaError("P2002", target))
      /\ UNCHANGED <<blobs, session>>

\* One pass of the retry loop: generate a token, update or create the row.
TokenAttempt(r, tokenId) ==
  LET self == IF r.stage = "rotate" THEN FindUserByPhone(users, r.phone) ELSE 0
      target == UniqueViolation(users, r.phone, tokenId, self)
  IN  /\ r.op = "token"
      /\ BagIn(r, inflight)
      /\ IF target = ""
         THEN /\ Resume(r)
              /\ users' = IF r.stage = "rotate"
                          THEN [users EXCEPT ![self].tokenId = tokenId]
                          ELSE Append(users, [phone |-> r.phone, tokenId |-> tokenId,
                                              isVerified |-> FALSE])
              /\ Answer("token", 0,
                        WithToken(Success(200, IF r.stage = "rotate"
                                               THEN "Token rotated successfully"
                                               ELSE "New user created with token"),
                                  tokenId))
         ELSE IF RetryAfterError(r.attempts + 1)
         THEN /\ inflight' = (inflight (-) SetToBag({r})) (+)
                   SetToBag({[r EXCEPT !.attempts = r.attempts + 1]})
              /\ UNCHANGED users
              /\ Answer("token", 0, NoResponse)
         ELSE /\ Resume(r)
              /\ UNCHANGED users
              /\ Answer("token", 0, handlePrismaError("P2002", target))
      /\ UNCHANGED <<orders, blobs, session>>

(***************************************************************************)
(* POST /api/orders                                                        *)
(* The body is a record; `missing` is the set of fields the body leaves    *)
(* out (undefined or null).                                                *)
(***************************************************************************)
requiredFields == <<"name", "phone", "copies", "pages", "files", "isNewUser">>

\* value === undefined || value === null || (typeof value === 'string' && !value.trim())
FieldMissing(body, field) ==
  \/ field \in body.missing
  \/ field = "name" /\ body.name = ""
  \/ field = "phone" /\ body.phone = ""

\* validateRequiredFields: the first missing field in requiredFields order, "" if none.
validateRequiredFields(body) ==
  LET miss == SelectSeq(requiredFields, LAMBDA f : FieldMissing(body, f))
  IN  IF Len(miss) > 0 THEN miss[1] ELSE ""

\* validateTokenId: trimmed length of at least 10.
validateTokenId(tokenId) == tokenId # "" /\ TokenLen(tokenId) >= MinTokenLen

\* Fault: the counts are checked before the phone format.
CreateValidateCountsFirst(body) ==
  IF validateRequiredFields(body) # ""
    THEN createErrorResponse("MISSING_FIELDS", 400, validateRequiredFields(body))
  ELSE IF body.copies < 1 \/ body.pages < 1
    THEN createErrorResponse("VALIDATION", 400,
                             IF body.copies < 1 THEN "copies" ELSE "pages")
  ELSE IF ~validatePhone(body.phone)
    THEN createErrorResponse("PHONE_INVALID", 400, "phone")
  ELSE IF Len(body.files) = 0
    THEN createErrorResponse("VALIDATION", 400, "files")
  ELSE IF ~body.isNewUser /\ TokenLen(body.tokenId) = 0
    THEN createErrorResponse("TOKEN_REQUIRED", 400, "tokenId")
  ELSE IF ~body.isNewUser /\ ~validateTokenId(body.tokenId)
    THEN createErrorResponse("TOKEN_INVALID", 400, "tokenId")
  ELSE NoResponse

\* The checks of the body, before any store call; NoResponse: all passed.
CreateValidate(body) ==
  IF validateRequiredFields(body) # ""
    THEN createErrorResponse("MISSING_FIELDS", 400, validateRequiredFields(body))
  ELSE IF ~validatePhone(body.phone)
    THEN createErrorResponse("PHONE_INVALID", 400, "phone")
  ELSE IF body.copies < 1 \/ body.pages < 1
    THEN createErrorResponse("VALIDATION", 400,
                             IF body.copies < 1 THEN "copies" ELSE "pages")
  ELSE IF Len(body.files) = 0
    THEN createErrorResponse("VALIDATION", 400, "files")
  ELSE IF ~body.isNewUser /\ TokenLen(body.tokenId) = 0
    THEN createErrorResponse("TOKEN_REQUIRED", 400, "tokenId")
  ELSE IF ~body.isNewUser /\ ~validateTokenId(body.tokenId)
    THEN createErrorResponse("TOKEN_INVALID", 400, "tokenId")
  ELSE NoResponse

\* Fault: the token lookup without the phone comparison.
CreateIdentityCheckNoPhoneMatch(us, body) ==
  IF body.isNewUser
  THEN IF FindUserByPhone(us, body.phone) # 0
       THEN createErrorResponse("PHONE_EXISTS", 409, "phone")
       ELSE NoResponse
  ELSE IF FindUserByToken(us, body.tokenId) = 0
       THEN createErrorResponse("TOKEN_INVALID", 404, "tokenId")
       ELSE NoResponse

\* Fault: the new-user branch without the lookup of the phone.
CreateIdentityCheckNoPhoneLookup(us, body) ==
  IF body.isNewUser
  THEN NoResponse
  ELSE IF FindUserByToken(us, body.tokenId) = 0
       THEN createErrorResponse("TOKEN_INVALID", 404, "tokenId")
       ELSE IF us[FindUserByToken(us, body.tokenId)].phone # body.phone
       THEN createErrorResponse("TOKEN_MISMATCH", 400, "tokenId")
       ELSE NoResponse

\* The identity lookup that follows the validation: findUnique by phone for a
\* new user, findUnique by token and the phone comparison otherwise.
CreateIdentityCheck(us, body) ==
  IF body.isNewUser
  THEN IF FindUserByPhone(us, body.phone) # 0
       THEN createErrorResponse("PHONE_EXISTS", 409, "phone")
       ELSE NoResponse
  ELSE IF FindUserByToken(us, body.tokenId) = 0
       THEN createErrorResponse("TOKEN_INVALID", 404, "tokenId")
       ELSE IF us[FindUserByToken(us, body.tokenId)].phone # body.phone
       THEN createErrorResponse("TOKEN_MISMATCH", 400, "tokenId")
       ELSE NoResponse

CreateCheck(us, body) ==
  IF CreateValidate(body) # NoResponse THEN CreateValidate(body)
  ELSE CreateIdentityCheck(us, body)

\* const totalAmount = pages * copies * PRICE_PER_PAGE
TotalAmount(pages, copies) == pages * copies * PRICE_PER_PAGE

\* The row prisma.order.create writes for request r.
NewOrder(r) ==
  [userId |-> r.uid, phone |-> r.phone, tokenId |-> r.tokenId, pages |-> r.pages,
   copies |-> r.copies, totalAmount |-> TotalAmount(r.pages, r.copies),
   files |-> r.files, status |-> "PENDING", paymentStatus |-> "PENDING"]

\* Order rows that exist or that a suspended request is about to write.
OrdersClaimed ==
  Len(orders) +
    BagCardinality([r \in {x \in DOMAIN inflight : x.op = "create" /\ x.stage = "order"}
                      |-> inflight[r]])

\* Validation and the first store call (the identity lookup).
CreateStart(body) ==
  LET resp == CreateCheck(users, body)
      uid == FindUserByToken(users, body.tokenId)
      r == [NoReq EXCEPT !.op = "create", !.phone = body.phone,
                         !.pages = body.pages, !.copies = body.copies,
                         !.files = body.files]
  IN  /\ resp = NoResponse => Room /\ OrdersClaimed < MaxOrders
      /\ IF resp # NoResponse THEN UNCHANGED inflight
         ELSE IF body.isNewUser THEN Suspend([r EXCEPT !.stage = "user"])
         ELSE Suspend([r EXCEPT !.stage = "order", !.uid = uid,
                                !.tokenId = users[uid].tokenId])
      /\ Answer("create", 0, resp)
      /\ UNCHANGED <<users, orders, blobs, session>>

\* prisma.user.create with a generated token.
CreateUserWrite(r, newTokenId) ==
  LET target == UniqueViolation(users, r.phone, newTokenId, 0)
  IN  /\ r.op = "create" /\ r.stage = "user"
      /\ BagIn(r, inflight)
      /\ IF target # ""
         THEN /\ Resume(r)
              /\ UNCHANGED users
              /\ Answer("create", 0, handlePrismaError("P2002", target))
         ELSE /\ OrdersClaimed < MaxOrders
              /\ inflight' = (inflight (-) SetToBag({r})) (+)
                   SetToBag({[r EXCEPT !.stage = "order", !.uid = Len(users) + 1,
                                       !.tokenId = newTokenId]})
              /\ users' = Append(users, [phone |-> r.phone, tokenId |-> newTokenId,
                                         isVerified |-> FALSE])
              /\ Answer("create", 0, NoResponse)
      /\ UNCHANGED <<orders, blobs, session>>

\* prisma.order.create and the 201 response.
CreateOrderWrite(r) ==
  /\ r.op = "create" /\ r.stage = "order"
  /\ BagIn(r, inflight)
  /\ Resume(r)
  /\ orders' = Append(orders, NewOrder(r))
  /\ Answer("create", Len(orders) + 1, Success(201, r.tokenId))
  /\ UNCHANGED <<users, blobs, session>>

\* prisma.order.create throws an error other than the known request errors
\* (the store is unreachable, say): the catch returns handlePrismaError.
CreateOrderFails(r) ==
  /\ r.op = "create" /\ r.stage = "order"
  /\ BagIn(r, inflight)
  /\ Resume(r)
  /\ Answer("create", 0, handlePrismaError("", ""))
  /\ UNCHANGED <<users, orders, blobs, session>>

(***************************************************************************)
(* POST /api/upload: one file of the customer's upload, stored under the   *)
(* customer's phone.  `blobs` is the set of names in that directory.       *)
(***************************************************************************)
\* The descriptor name the upload returns: on local disk the sanitized name,
\* suffixed while a file of that name exists; in the blob store the sanitized
\* name (the store adds a random suffix to the key, not to the name).
UploadName(raw, useBlob, existing) ==
  IF useBlob THEN Join(SanitizeChars(raw))
  ELSE Join(FinalFileName(SanitizeChars(raw), 0, existing))

Upload(raw, useBlob) ==
  /\ Cardinality(blobs) < MaxUploads
  /\ blobs' = blobs \cup {UploadName(raw, useBlob, blobs)}
  /\ Answer("upload", 0, Success(200, UploadName(raw, useBlob, blobs)))
  /\ UNCHANGED <<users, orders, inflight, session>>

(***************************************************************************)
(* GET /api/orders?phone=&tokenId=: the orders of an identity.  A query    *)
(* parameter that is absent is "".                                         *)
(***************************************************************************)
\* Fault: the identity is looked up by its token alone.
FindUserByTokenOnly(us, phone, tokenId) ==
  IF \E i \in DOMAIN us : us[i].tokenId = tokenId
  THEN CHOOSE i \in DOMAIN us : us[i].tokenId = tokenId
  ELSE 0

\* prisma.user.findFirst({where: {phone, tokenId}}): the row id, 0 when none.
FindUser(us, phone, tokenId) ==
  IF \E i \in DOMAIN us : us[i].phone = phone /\ us[i].tokenId = tokenId
  THEN CHOOSE i \in DOMAIN us : us[i].phone = phone /\ us[i].tokenId = tokenId
  ELSE 0

ListCheck(us, phone, tokenId) ==
  IF phone = "" \/ tokenId = ""
    THEN createErrorResponse("MISSING_FIELDS", 400, "Phone number and Token ID are required")
  ELSE IF ~validatePhone(phone) THEN createErrorResponse("PHONE_INVALID", 400, "phone")
  ELSE IF FindUser(us, phone, tokenId) = 0
    THEN createErrorResponse("TOKEN_INVALID", 404, "User not found or invalid credentials")
  ELSE NoResponse

\* prisma.order.findMany({where: {userId: user.id}})
OrdersOfUser(os, uid) == { oid \in DOMAIN os : os[oid].userId = uid }

\* Validation and findFirst.
ListStart(phone, tokenId) ==
  LET resp == ListCheck(users, phone, tokenId)
  IN  /\ resp = NoResponse => Room
      /\ IF resp = NoResponse
         THEN Suspend([NoReq EXCEPT !.op = "list", !.phone = phone, !.tokenId = tokenId,
                                    !.uid = FindUser(users, phone, tokenId)])
         ELSE UNCHANGED inflight
      /\ Answer("list", 0, resp)
      /\ UNCHANGED <<users, orders, blobs, session>>

\* findMany and the 200 response.
ListRead(r) ==
  /\ r.op = "list"
  /\ BagIn(r, inflight)
  /\ Resume(r)
  /\ Answer("list", 0, WithItems(Success(200, ""), OrdersOfUser(orders, r.uid)))
  /\ UNCHANGED <<users, orders, blobs, session>>

(***************************************************************************)
(* POST / DELETE /api/admin/session: the passcode login sets the           *)
(* admin-session cookie, the logout deletes it.                            *)
(***************************************************************************)
ADMIN_PASSCODE == "admin123"

Passcodes == {"", ADMIN_PASSCODE, "letmein"}

LoginCheck(passcode) ==
  IF passcode = "" THEN [http |-> 400, code |-> "", note |-> "Passcode is required"]
  ELSE IF passcode # ADMIN_PASSCODE
    THEN [http |-> 401, code |-> "", note |-> "Invalid passcode"]
  ELSE Success(200, "Login successful")

Login(passcode) ==
  LET resp == LoginCheck(passcode)
  IN  /\ session' = IF resp.code = "OK" THEN TRUE ELSE session
      /\ Answer("login", 0, resp)
      /\ UNCHANGED <<users, orders, inflight, blobs>>

Logout ==
  /\ session' = FALSE
  /\ Answer("logout", 0, Success(200, "Logout successful"))
  /\ UNCHANGED <<users, orders, inflight, blobs>>

(***************************************************************************)
(* PATCH /api/admin/users: body {userIds, isVerified}.  A user id is the   *)
(* row number; 0 stands for an id shorter than 10 characters.              *)
(***************************************************************************)
VerifyCheck(body) ==
  IF "userIds" \in body.missing \/ body.userIds = {}
    THEN createErrorResponse("MISSING_FIELDS", 400, "userIds")
  ELSE IF "isVerified" \in body.missing
    THEN createErrorResponse("MISSING_FIELDS", 400, "isVerified")
  ELSE IF \E uid \in body.userIds : uid = 0
    THEN createErrorResponse("INVALID_ORDER_ID", 400, "userIds")
  ELSE Success(200, IF body.isVerified THEN "verified" ELSE "unverified")

\* Fault: the update has no where clause and reaches every identity.
VerifyUpdateAll(us, body) ==
  [uid \in DOMAIN us |-> [us[uid] EXCEPT !.isVerified = body.isVerified]]

\* Fault: the update flips the flag of the identities it names.
VerifyUpdateToggles(us, body) ==
  [uid \in DOMAIN us |->
     IF uid \in body.userIds THEN [us[uid] EXCEPT !.isVerified = ~us[uid].isVerified]
     ELSE us[uid]]

\* prisma.user.updateMany({where: {id: {in: userIds}}, data: {isVerified}})
VerifyUpdate(us, body) ==
  [uid \in DOMAIN us |->
     IF uid \in body.userIds THEN [us[uid] EXCEPT !.isVerified = body.isVerified]
     ELSE us[uid]]

VerifyUsers(body) ==
  LET resp == VerifyCheck(body)
  IN  /\ users' = IF resp.code = "OK" THEN VerifyUpdate(users, body) ELSE users
      /\ Answer("verify", 0, resp)
      /\ UNCHANGED <<orders, inflight, blobs, session>>

(***************************************************************************)
(* Order lifecycle specification: one registered identity places orders;   *)
(* customers detach files and cancel, the administrator updates.           *)
(***************************************************************************)
TokenA == "TK-1700000000001-aaaaaaaaa"

Idle == [op |-> "", oid |-> 0, http |-> 0, code |-> "-", note |-> "",
         token |-> "", items |-> {}]

Init ==
  /\ users = << [phone |-> PhoneA, tokenId |-> TokenA, isVerified |-> FALSE] >>
  /\ orders = << >>
  /\ inflight = EmptyBag
  /\ last = Idle
  /\ blobs = FileNames
  /\ session = FALSE
  /\ retired = {}

\* Request bodies: every well-formed order of the registered identity, and one
\* body for each of the count and file checks.
OrderBody(copies, pages, files) ==
  [name |-> "n", phone |-> PhoneA, copies |-> copies, pages |-> pages,
   files |-> files, isNewUser |-> FALSE, tokenId |-> TokenA, missing |-> {}]

OrderBodies ==
  { OrderBody(c, 5, f) : c \in {1, 2}, f \in FileLists \ {<<>>} }
    \cup { OrderBody(0, 5, <<>>), OrderBody(1, 0, <<>>), OrderBody(1, 5, <<>>) }

OrderIds == 0..MaxOrders

StatusInputs == validStatuses \cup {"", "RECEIVED"}
PaymentInputs == validPaymentStatuses \cup {"", "REFUNDED"}

\* The bulk endpoint is driven with one field at a time, or both.
BulkInputs ==
  { <<s, "">> : s \in StatusInputs } \cup { <<"", p>> : p \in PaymentInputs }
    \cup { <<"COMPLETED", "PAID">> }

BulkIds == {{}, {0}} \cup (SUBSET (1..MaxOrders) \ {{}})

Requests == DOMAIN inflight

\* The history of replaced tokens is kept by the token specification only.
NoHistory == UNCHANGED retired

Next ==
  \/ \E body \in OrderBodies : CreateStart(body) /\ NoHistory
  \/ \E r \in Requests : CreateOrderWrite(r) /\ NoHistory
  \/ \E oid \in OrderIds, fileName \in FileNames :
       DetachStart(oid, fileName) /\ NoHistory
  \/ \E r \in Requests : DetachWrite(r) /\ NoHistory
  \/ \E oid \in OrderIds : CancelStart(oid) /\ NoHistory
  \/ \E r \in Requests : CancelWrite(r) /\ NoHistory
  \/ \E oid \in OrderIds, s \in StatusInputs, p \in PaymentInputs :
       AdminUpdate(oid, s, p) /\ NoHistory
  \/ \E ids \in BulkIds, u \in BulkInputs : BulkUpdate(ids, u[1], u[2]) /\ NoHistory

Spec == Init /\ [][Next]_vars


(***************************************************************************)
(* Identity specification: customers of two phone numbers request tokens   *)
(* and place orders as new or as returning users, concurrently.            *)
(***************************************************************************)
InitIdentity ==
  /\ users = << >>
  /\ orders = << >>
  /\ inflight = EmptyBag
  /\ last = Idle
  /\ blobs = FileNames
  /\ session = FALSE
  /\ retired = {}

IdentityBody(phone, isNewUser, tokenId) ==
  [name |-> "n", phone |-> phone, copies |-> 1, pages |-> 1,
   files |-> << [name |-> "a.pdf", pages |-> 3] >>, isNewUser |-> isNewUser,
   tokenId |-> tokenId, missing |-> {}]

IdentityBodies ==
  { IdentityBody(ph, TRUE, "") : ph \in Phones \cup {BadPhone} }
    \cup { IdentityBody(ph, FALSE, t) : ph \in Phones, t \in Tokens \cup {"", ShortToken} }

NextIdentity ==
  \/ \E phone \in Phones \cup {BadPhone} : TokenStart(phone) /\ NoHistory
  \/ \E r \in Requests, tokenId \in Tokens : TokenAttempt(r, tokenId) /\ NoHistory
  \/ \E body \in IdentityBodies : CreateStart(body) /\ NoHistory
  \/ \E r \in Requests, tokenId \in Tokens : CreateUserWrite(r, tokenId) /\ NoHistory
  \/ \E r \in Requests : CreateOrderWrite(r) /\ NoHistory

SpecIdentity == InitIdentity /\ [][NextIdentity]_vars

(***************************************************************************)
(* Administration specification: two registered identities, one of which   *)
(* places an order; the administrator logs in and out, updates orders and  *)
(* verifies identities.                                                    *)
(***************************************************************************)
TokenB == "TK-1700000000002-bbbbbbbbb"

InitAdmin ==
  /\ users = << [phone |-> PhoneA, tokenId |-> TokenA, isVerified |-> FALSE],
                [phone |-> PhoneB, tokenId |-> TokenB, isVerified |-> FALSE] >>
  /\ orders = << >>
  /\ inflight = EmptyBag
  /\ last = Idle
  /\ blobs = FileNames
  /\ session = FALSE
  /\ retired = {}

AdminOrderBodies ==
  { OrderBody(2, 5, << [name |-> "a.pdf", pages |-> 3], [name |-> "b.pdf", pages |-> 2] >>) }

\* User ids sent to the verification: 0 is malformed, 3 names no identity.
UserIdSets == {{}, {0}, {1}, {2}, {1, 2}, {3}, {1, 3}}

VerifyBody(userIds, isVerified, missing) ==
  [userIds |-> userIds, isVerified |-> isVerified, missing |-> missing]

VerifyBodies ==
  { VerifyBody(ids, v, {}) : ids \in UserIdSets, v \in BOOLEAN }
    \cup { VerifyBody({1}, FALSE, {"isVerified"}), VerifyBody({}, TRUE, {"userIds"}) }

NextAdmin ==
  \/ \E body \in AdminOrderBodies : CreateStart(body) /\ NoHistory
  \/ \E r \in Requests : CreateOrderWrite(r) /\ NoHistory
  \/ \E passcode \in Passcodes : Login(passcode) /\ NoHistory
  \/ Logout /\ NoHistory
  \/ \E oid \in OrderIds, s \in StatusInputs, p \in PaymentInputs :
       AdminUpdate(oid, s, p) /\ NoHistory
  \/ \E ids \in BulkIds, u \in BulkInputs : BulkUpdate(ids, u[1], u[2]) /\ NoHistory
  \/ \E body \in VerifyBodies : VerifyUsers(body) /\ NoHistory

SpecAdmin == InitAdmin /\ [][NextAdmin]_vars

(***************************************************************************)
(* Token specification: customers of two phone numbers request tokens      *)
(* concurrently and the administrator verifies identities; `retired`       *)
(* records every token that a step replaced.                               *)
(***************************************************************************)
Retire ==
  retired' = retired \cup
    { users[i].tokenId : i \in { j \in DOMAIN users : users'[j].tokenId # users[j].tokenId } }

NextToken ==
  \/ \E phone \in Phones \cup {BadPhone} : TokenStart(phone) /\ NoHistory
  \/ \E r \in Requests, tokenId \in Tokens : TokenAttempt(r, tokenId) /\ Retire
  \/ \E body \in VerifyBodies : VerifyUsers(body) /\ NoHistory

SpecToken == InitIdentity /\ [][NextToken]_vars

(***************************************************************************)
(* Listing specification: two registered identities place orders as        *)
(* returning users, rotate their tokens and list their orders.             *)
(***************************************************************************)
ListingBodies == { IdentityBody(ph, FALSE, t) : ph \in Phones, t \in Tokens }

NextListing ==
  \/ \E body \in ListingBodies : CreateStart(body) /\ NoHistory
  \/ \E r \in Requests : CreateOrderWrite(r) /\ NoHistory
  \/ \E phone \in Phones : TokenStart(phone) /\ NoHistory
  \/ \E r \in Requests, tokenId \in Tokens : TokenAttempt(r, tokenId) /\ NoHistory
  \/ \E phone \in Phones \cup {BadPhone, ""}, tokenId \in Tokens \cup {""} :
       ListStart(phone, tokenId) /\ NoHistory
  \/ \E r \in Requests : ListRead(r) /\ NoHistory

SpecListing == InitAdmin /\ [][NextListing]_vars

(***************************************************************************)
(* Failure specification: the five writing operations side by side.  One   *)
(* identity is registered; a second phone registers by its first order or  *)
(* by a token request, so that every error answer of the operations        *)
(* (validation, not found, conflict, state) occurs.                        *)
(***************************************************************************)
TwoFiles == << [name |-> "a.pdf", pages |-> 3], [name |-> "b.pdf", pages |-> 2] >>

FailureBodies ==
  { OrderBody(1, 5, TwoFiles),
    [OrderBody(1, 5, TwoFiles) EXCEPT !.tokenId = TokenB],
    [OrderBody(1, 5, TwoFiles) EXCEPT !.isNewUser = TRUE],
    [OrderBody(1, 5, TwoFiles) EXCEPT !.isNewUser = TRUE, !.phone = PhoneB] }

FailureUpdates == { <<"COMPLETED", "">>, <<"", "PAID">>, <<"RECEIVED", "">> }

NextFailure ==
  \/ \E body \in FailureBodies : CreateStart(body) /\ NoHistory
  \/ \E r \in Requests, tokenId \in Tokens : CreateUserWrite(r, tokenId) /\ NoHistory
  \/ \E r \in Requests : CreateOrderWrite(r) /\ NoHistory
  \/ \E oid \in OrderIds, fileName \in FileNames :
       DetachStart(oid, fileName) /\ NoHistory
  \/ \E r \in Requests : DetachWrite(r) /\ NoHistory
  \/ \E oid \in OrderIds : CancelStart(oid) /\ NoHistory
  \/ \E r \in Requests : CancelWrite(r) /\ NoHistory
  \/ \E oid \in OrderIds, u \in FailureUpdates : AdminUpdate(oid, u[1], u[2]) /\ NoHistory
  \/ \E phone \in {PhoneA, BadPhone} : TokenStart(phone) /\ NoHistory
  \/ \E r \in Requests, tokenId \in Tokens : TokenAttempt(r, tokenId) /\ NoHistory

SpecFailure == Init /\ [][NextFailure]_vars

(***************************************************************************)
(* Verification specification: the customer operations that touch identity *)
(* rows or orders, and the administrator's verification of identities.     *)
(***************************************************************************)
OneFile == << [name |-> "a.pdf", pages |-> 3] >>

VerifiedBodies ==
  { OrderBody(1, 3, OneFile),
    [OrderBody(1, 3, OneFile) EXCEPT !.isNewUser = TRUE, !.phone = PhoneB] }

VerifiedRequests ==
  { VerifyBody(ids, v, {}) : ids \in {{1}, {2}}, v \in BOOLEAN }

NextVerified ==
  \/ \E body \in VerifiedBodies : CreateStart(body) /\ NoHistory
  \/ \E r \in Requests, tokenId \in Tokens : CreateUserWrite(r, tokenId) /\ NoHistory
  \/ \E r \in Requests : CreateOrderWrite(r) /\ NoHistory
  \/ \E oid \in DOMAIN orders : DetachStart(oid, "a.pdf") /\ NoHistory
  \/ \E r \in Requests : DetachWrite(r) /\ NoHistory
  \/ \E oid \in DOMAIN orders : CancelStart(oid) /\ NoHistory
  \/ \E r \in Requests : CancelWrite(r) /\ NoHistory
  \/ \E phone \in Phones : TokenStart(phone) /\ NoHistory
  \/ \E r \in Requests, tokenId \in Tokens : TokenAttempt(r, tokenId) /\ NoHistory
  \/ \E body \in VerifiedRequests : VerifyUsers(body) /\ NoHistory

SpecVerified == Init /\ [][NextVerified]_vars

(***************************************************************************)
(* Store-failure specification: new customers register by their first      *)
(* order, and the insert of the order may fail in the store.               *)
(***************************************************************************)
NewUserBodies == { IdentityBody(ph, TRUE, "") : ph \in Phones }

NextStore ==
  \/ \E body \in NewUserBodies : CreateStart(body) /\ NoHistory
  \/ \E r \in Requests, tokenId \in Tokens : CreateUserWrite(r, tokenId) /\ NoHistory
  \/ \E r \in Requests : CreateOrderWrite(r) /\ NoHistory
  \/ \E r \in Requests : CreateOrderFails(r) /\ NoHistory

SpecStore == InitIdentity /\ [][NextStore]_vars

(***************************************************************************)
(* Retrieval specification: the listing specification with the history of  *)
(* replaced tokens.                                                        *)
(***************************************************************************)
NextRetrieval ==
  \/ \E body \in ListingBodies : CreateStart(body) /\ NoHistory
  \/ \E r \in Requests : CreateOrderWrite(r) /\ NoHistory
  \/ \E phone \in Phones : TokenStart(phone) /\ NoHistory
  \/ \E r \in Requests, tokenId \in Tokens : TokenAttempt(r, tokenId) /\ Retire
  \/ \E phone \in Phones, tokenId \in Tokens : ListStart(phone, tokenId) /\ NoHistory
  \/ \E r \in Requests : ListRead(r) /\ NoHistory

SpecRetrieval == InitAdmin /\ [][NextRetrieval]_vars

(***************************************************************************)
(* Upload specification: the registered identity uploads files, places an  *)
(* order with an uploaded file and detaches it.                            *)
(***************************************************************************)
InitUpload ==
  /\ users = << [phone |-> PhoneA, tokenId |-> TokenA, isVerified |-> FALSE] >>
  /\ orders = << >>
  /\ inflight = EmptyBag
  /\ last = Idle
  /\ blobs = {}
  /\ session = FALSE
  /\ retired = {}

\* An order for one uploaded file; the upload returns pages: 1.
UploadedBody(name) == OrderBody(1, 1, << [name |-> name, pages |-> 1] >>)

NextUpload ==
  \/ \E raw \in RawNames, useBlob \in BOOLEAN : Upload(raw, useBlob) /\ NoHistory
  \/ \E name \in blobs : CreateStart(UploadedBody(name)) /\ NoHistory
  \/ \E r \in Requests : CreateOrderWrite(r) /\ NoHistory
  \/ \E oid \in DOMAIN orders, name \in blobs : DetachStart(oid, name) /\ NoHistory
  \/ \E r \in Requests : DetachWrite(r) /\ NoHistory

SpecUpload == InitUpload /\ [][NextUpload]_vars

(***************************************************************************)
(* Validation specification: order requests that break any combination of  *)
(* the checks of the body.                                                 *)
(***************************************************************************)
ValidationBodies ==
  { [name |-> "n", phone |-> ph, copies |-> c, pages |-> pg, files |-> f,
     isNewUser |-> nu, tokenId |-> t, missing |-> m] :
      ph \in Phones \cup {BadPhone}, c \in {0, 1}, pg \in {0, 1},
      f \in {<<>>, OneFile}, nu \in BOOLEAN, t \in {"", ShortToken, TokenA},
      m \in {{}, {"files"}} }

NextValidation ==
  \/ \E body \in ValidationBodies : CreateStart(body) /\ NoHistory
  \/ \E r \in Requests, tokenId \in Tokens : CreateUserWrite(r, tokenId) /\ NoHistory
  \/ \E r \in Requests : CreateOrderWrite(r) /\ NoHistory

SpecValidation == Init /\ [][NextValidation]_vars

(***************************************************************************)
(* Properties.                                                             *)
(***************************************************************************)
Terminal == {"COMPLETED", "CANCELLED"}

\* C1: a detach that removes the only file of the order it read writes
\* files = [] and status = CANCELLED in its one update, and after every
\* successful detach files = [] implies status = CANCELLED.
C1_LastFileCancels ==
  [][\A r \in DOMAIN inflight :
       DetachWrite(r) =>
         /\ last'.code = "OK"
         /\ orders'[r.oid].files = <<>> => orders'[r.oid].status = "CANCELLED"
         /\ Len(r.files) = 1 =>
              /\ orders'[r.oid].files = <<>>
              /\ orders'[r.oid].status = "CANCELLED"]_vars

\* An order created with two files was cancelled by the detach of its last
\* file, after an earlier detach had recomputed its page count.
C1_Witness ==
  \E oid \in DOMAIN orders :
    /\ last.op = "detach" /\ last.code = "OK" /\ last.oid = oid
    /\ orders[oid].files = <<>> /\ orders[oid].status = "CANCELLED"
    /\ orders[oid].pages = 2

\* C2: every order has totalAmount = pages * copies * 5.
C2_PriceInvariant ==
  \A oid \in DOMAIN orders :
    orders[oid].totalAmount = orders[oid].pages * orders[oid].copies * 5

\* A successful detach left a file and a page count other than the declared one.
C2_Witness ==
  \E oid \in DOMAIN orders :
    /\ last.op = "detach" /\ last.code = "OK" /\ last.oid = oid
    /\ orders[oid].files # <<>>
    /\ orders[oid].pages = 2 /\ orders[oid].copies = 2 /\ orders[oid].totalAmount = 20

\* C3: once an order is COMPLETED or CANCELLED a detach on it answers
\* 'Can only remove files from pending orders' and no step changes its files,
\* pages or totalAmount.
C3_TerminalImmutable ==
  [][\A oid \in DOMAIN orders :
       orders[oid].status \in Terminal =>
         /\ orders'[oid].files = orders[oid].files
         /\ orders'[oid].pages = orders[oid].pages
         /\ orders'[oid].totalAmount = orders[oid].totalAmount
         /\ \A fileName \in FileNames :
              DetachStart(oid, fileName) =>
                last'.code = "ORDER_CANNOT_CANCEL" /\ last'.http = 400]_vars

\* C4: a cancel that finds the order PENDING with paymentStatus PAID or
\* VERIFIED answers PAYMENT_REQUIRED (400) and changes nothing.
C4_PaidCancelRefused ==
  [][\A oid \in DOMAIN orders :
       ( /\ CancelStart(oid)
         /\ orders[oid].status = "PENDING"
         /\ orders[oid].paymentStatus \in {"PAID", "VERIFIED"} ) =>
         /\ last'.code = "PAYMENT_REQUIRED" /\ last'.http = 400
         /\ UNCHANGED <<users, orders, inflight>>]_vars

C4_Witness ==
  \E oid \in DOMAIN orders :
    /\ last.op = "cancel" /\ last.code = "PAYMENT_REQUIRED" /\ last.oid = oid
    /\ orders[oid].status = "PENDING" /\ orders[oid].paymentStatus = "PAID"

\* C5: a cancel goes on to write CANCELLED exactly when it finds the order
\* existing, PENDING and unpaid; on a COMPLETED or CANCELLED order it answers
\* ORDER_CANNOT_CANCEL with the message of that status and changes nothing;
\* a cancel right after a successful cancel of the same order gets the
\* 'already cancelled' message.
C5_CancelOutcome ==
  [][/\ \A oid \in OrderIds :
          CancelStart(oid) =>
            /\ UNCHANGED <<users, orders>>
            /\ last'.code = "-" <=>
                 ( /\ oid \in DOMAIN orders
                   /\ orders[oid].status = "PENDING"
                   /\ orders[oid].paymentStatus = "PENDING" )
            /\ last'.code # "-" => UNCHANGED inflight
            /\ (oid \in DOMAIN orders /\ orders[oid].status = "COMPLETED") =>
                 /\ last'.code = "ORDER_CANNOT_CANCEL"
                 /\ last'.note = "This order has already been completed"
            /\ (oid \in DOMAIN orders /\ orders[oid].status = "CANCELLED") =>
                 /\ last'.code = "ORDER_CANNOT_CANCEL"
                 /\ last'.note = "This order has already been cancelled"
            /\ (last.op = "cancel" /\ last.code = "OK" /\ last.oid = oid) =>
                 last'.note = "This order has already been cancelled"
     /\ \A r \in DOMAIN inflight :
          CancelWrite(r) =>
            /\ r.seen = "PENDING"
            /\ last'.code = "OK"
            /\ orders' = [orders EXCEPT ![r.oid].status = "CANCELLED"]]_vars

\* A cancel was refused on an order that an earlier cancel had cancelled.
C5_Witness ==
  \E oid \in DOMAIN orders :
    /\ last.op = "cancel" /\ last.oid = oid
    /\ last.code = "ORDER_CANNOT_CANCEL"
    /\ last.note = "This order has already been cancelled"
    /\ orders[oid].status = "CANCELLED" /\ orders[oid].files # <<>>

\* C6: an order for a returning user (isNewUser = false, body otherwise valid)
\* whose token no identity holds answers TOKEN_INVALID (404); one whose token
\* is held by an identity of another phone answers TOKEN_MISMATCH (400); the
\* existence test comes first, and in both cases no order and no identity is
\* created or changed and no store write is left pending.
C6_IdentityBinding ==
  [][\A body \in IdentityBodies :
       ( /\ CreateStart(body)
         /\ ~body.isNewUser
         /\ CreateValidate(body) = NoResponse ) =>
         LET uid == FindUserByToken(users, body.tokenId)
         IN  /\ uid = 0 =>
                  /\ last'.code = "TOKEN_INVALID" /\ last'.http = 404
                  /\ UNCHANGED <<users, orders, inflight>>
             /\ (uid # 0 /\ users[uid].phone # body.phone) =>
                  /\ last'.code = "TOKEN_MISMATCH" /\ last'.http = 400
                  /\ UNCHANGED <<users, orders, inflight>>
             /\ (uid # 0 /\ users[uid].phone = body.phone) =>
                  last'.code = "-"]_vars

\* An order was refused because its token belongs to the other identity.
C6_Witness ==
  /\ last.op = "create" /\ last.code = "TOKEN_MISMATCH"
  /\ Len(users) = 2

\* C7: no two identities hold the same token.
C7_TokenUnique ==
  \A i, j \in DOMAIN users : i # j => users[i].tokenId # users[j].tokenId

\* Two identities exist and a token request has drawn a token that one of
\* them holds, and is retrying.
C7_Witness ==
  /\ Len(users) = 2
  /\ \E r \in DOMAIN inflight : r.op = "token" /\ r.attempts > 0

\* C8: no two identities have the same phone, and no step changes the phone
\* or the row of an identity.
C8_OneIdentityPerPhone ==
  /\ [](\A i, j \in DOMAIN users : i # j => users[i].phone # users[j].phone)
  /\ [][\A i \in DOMAIN users :
          i \in DOMAIN users' /\ users'[i].phone = users[i].phone]_vars

\* Two requests raced to register the same phone: the loser of the race was
\* answered with the unique violation of the phone index.
C8_Witness ==
  /\ last.op = "token" /\ last.code = "PHONE_EXISTS"
  /\ \E i \in DOMAIN users : users[i].phone = PhoneA

\* C9: an order for a new user (isNewUser = true, body otherwise valid) whose
\* phone already has an identity answers PHONE_EXISTS (409), whether the
\* lookup finds the identity or the insert hits the phone index; no order and
\* no identity is created and the identity is unchanged.
C9_PhoneAlreadyRegistered ==
  [][/\ \A body \in IdentityBodies :
          ( /\ CreateStart(body)
            /\ body.isNewUser
            /\ CreateValidate(body) = NoResponse
            /\ FindUserByPhone(users, body.phone) # 0 ) =>
            /\ last'.code = "PHONE_EXISTS" /\ last'.http = 409
            /\ UNCHANGED <<users, orders, inflight>>
     /\ \A r \in DOMAIN inflight, t \in Tokens :
          (CreateUserWrite(r, t) /\ FindUserByPhone(users, r.phone) # 0) =>
            /\ last'.code = "PHONE_EXISTS" /\ last'.http = 409
            /\ UNCHANGED <<users, orders>>
            /\ inflight' = inflight (-) SetToBag({r})]_vars

\* A new-user order was refused for a phone that has an identity.
C9_Witness ==
  /\ last.op = "create" /\ last.code = "PHONE_EXISTS" /\ last.http = 409
  /\ \E i \in DOMAIN users : users[i].phone = PhoneB
  /\ orders = <<>>

\* C10 as the specification states it: no step changes the status of a COMPLETED or CANCELLED order.
C10_NoTransitionOutOfTerminal ==
  [][\A oid \in DOMAIN orders :
       orders[oid].status \in Terminal => orders'[oid].status = orders[oid].status]_vars

\* C10 amended: cancel and detach refuse an order they find COMPLETED or
\* CANCELLED, and the only status they write is CANCELLED, for an order they
\* read as PENDING; every other status change is made by adminUpdate or the
\* bulk update, which set any valid status whatever the current one.
C10_StatusChanges ==
  [][/\ \A oid \in DOMAIN orders :
          orders'[oid].status # orders[oid].status =>
            \/ /\ last'.op \in {"adminUpdate", "bulkUpdate"}
               /\ orders'[oid].status \in validStatuses
            \/ /\ last'.op \in {"cancel", "detach"}
               /\ orders'[oid].status = "CANCELLED"
               /\ \E r \in DOMAIN inflight :
                    /\ r.oid = oid /\ r.op = last'.op /\ r.seen = "PENDING"
                    /\ inflight' = inflight (-) SetToBag({r})
     /\ \A oid \in DOMAIN orders :
          orders[oid].status \in Terminal =>
            /\ CancelStart(oid) => UNCHANGED <<orders, inflight>>
            /\ \A fileName \in FileNames :
                 DetachStart(oid, fileName) => UNCHANGED <<orders, inflight>>]_vars

\* The administrator reopened an order that the detach of its last file had
\* cancelled: only that detach empties the file list.
C10_Witness ==
  \E oid \in DOMAIN orders :
    /\ last.op = "adminUpdate" /\ last.code = "OK" /\ last.oid = oid
    /\ orders[oid].status = "PENDING" /\ orders[oid].files = <<>>

\* C11: adminUpdate tests every supplied (non-empty) field against its
\* enumeration before it writes: with a status outside validStatuses or a
\* paymentStatus outside validPaymentStatuses the order is not modified;
\* otherwise exactly the supplied fields of an existing order take the given
\* values, whatever its current status and paymentStatus, and nothing else
\* changes.
C11_AdminUpdateEffect ==
  [][last'.op = "adminUpdate" =>
       \A oid \in {last'.oid}, s \in StatusInputs, p \in PaymentInputs :
         AdminUpdate(oid, s, p) =>
           /\ UNCHANGED <<users, inflight>>
           /\ IF \/ s # "" /\ s \notin validStatuses
                 \/ p # "" /\ p \notin validPaymentStatuses
              THEN /\ UNCHANGED orders
                   /\ last'.http = 400
              ELSE IF oid \in DOMAIN orders /\ (s # "" \/ p # "")
              THEN /\ last'.code = "OK"
                   /\ DOMAIN orders' = DOMAIN orders
                   /\ \A o \in DOMAIN orders :
                        orders'[o] =
                          IF o # oid THEN orders[o]
                          ELSE [orders[o] EXCEPT
                                  !.status = IF s # "" THEN s ELSE @,
                                  !.paymentStatus = IF p # "" THEN p ELSE @]
              ELSE /\ UNCHANGED orders
                   /\ last'.code # "OK"]_vars

\* The administrator's update succeeded on an order that is now CANCELLED
\* and VERIFIED, with its files, copies and amount as the order was placed.
C11_Witness ==
  \E oid \in DOMAIN orders :
    /\ last.op = "adminUpdate" /\ last.code = "OK" /\ last.oid = oid
    /\ orders[oid].status = "CANCELLED" /\ orders[oid].paymentStatus = "VERIFIED"
    /\ Len(orders[oid].files) = 2 /\ orders[oid].totalAmount = 50

AdminOps == {"adminUpdate", "bulkUpdate", "verify"}

\* C12: an order update (single or bulk) or an identity verification changes
\* an order or an identity only while an administrator session exists.
C12_AdminGated ==
  [][(last'.op \in AdminOps /\ (orders' # orders \/ users' # users)) => session]_vars

\* C13: a token request that succeeds leaves exactly one identity for its
\* phone, holding the token the response returns; the response says "new
\* user" exactly when the request found no identity for the phone, and then
\* the identity is created unverified; otherwise only the token of the
\* identity changes (row, phone, verified flag and all orders are as before).
C13_IssueOrRotate ==
  [][(last'.op = "token" /\ last'.code = "OK") =>
       \A r \in DOMAIN inflight, t \in Tokens :
         TokenAttempt(r, t) =>
           LET self == FindUserByPhone(users, r.phone)
               mine == { i \in DOMAIN users' : users'[i].phone = r.phone }
           IN  /\ Cardinality(mine) = 1
               /\ \A i \in mine : users'[i].tokenId = last'.token
               /\ last'.token = t
               /\ UNCHANGED orders
               /\ last'.note = "New user created with token" <=> self = 0
               /\ r.stage = "create" <=> self = 0
               /\ self = 0 =>
                    users' = Append(users, [phone |-> r.phone, tokenId |-> t,
                                            isVerified |-> FALSE])
               /\ self # 0 =>
                    /\ DOMAIN users' = DOMAIN users
                    /\ \A i \in DOMAIN users :
                         users'[i] = IF i = self
                                     THEN [users[i] EXCEPT !.tokenId = t]
                                     ELSE users[i]]_vars

\* The token of a verified identity was rotated.
C13_Witness ==
  /\ last.op = "token" /\ last.code = "OK"
  /\ last.note = "Token rotated successfully"
  /\ \E i \in DOMAIN users : users[i].isVerified /\ users[i].tokenId = last.token
  /\ retired # {}

\* C14: a token that a rotation replaced is never the token of an identity
\* again.
C14_NeverReused ==
  \A i \in DOMAIN users : users[i].tokenId \notin retired

\* C15: a token request whose third write hits the token index is answered
\* with the 500 'Failed to generate unique token after multiple attempts'.
C15_RetryExhausted ==
  [][\A r \in DOMAIN inflight, t \in Tokens :
       ( /\ TokenAttempt(r, t)
         /\ r.attempts = maxAttempts - 1
         /\ UniqueViolation(users, r.phone, t,
                            IF r.stage = "rotate" THEN FindUserByPhone(users, r.phone)
                            ELSE 0) = "tokenId" ) =>
         last'.http = 500]_vars

\* C16: the listing goes on to read orders only when exactly one identity has
\* both the phone and the token of the query, and then returns exactly the
\* orders of that identity; a well-formed query that no identity matches in
\* both values, such as the token of another phone, is answered
\* TOKEN_INVALID (404) with no order; a listing changes nothing.
C16_ListingByPhoneAndToken ==
  [][last'.op = "list" =>
       /\ UNCHANGED <<users, orders>>
       /\ \A phone \in Phones \cup {BadPhone, ""}, tokenId \in Tokens \cup {""} :
            ListStart(phone, tokenId) =>
              LET match == { i \in DOMAIN users :
                               users[i].phone = phone /\ users[i].tokenId = tokenId }
              IN  /\ last'.items = {}
                  /\ last'.code = "-" <=> Cardinality(match) = 1
                  /\ (phone \in Phones /\ tokenId # "" /\ match = {}) =>
                       /\ last'.code = "TOKEN_INVALID" /\ last'.http = 404
                       /\ UNCHANGED inflight
       /\ \A r \in DOMAIN inflight :
            ListRead(r) =>
              /\ last'.code = "OK"
              /\ last'.items = { oid \in DOMAIN orders : orders[oid].userId = r.uid }
              /\ users[r.uid].phone = r.phone
              /\ \A oid \in last'.items : orders[oid].phone = r.phone]_vars

\* An identity listed its orders and got none while the other identity
\* has one.
C16_Witness ==
  /\ last.op = "list" /\ last.code = "OK" /\ last.items = {}
  /\ orders # <<>>

\* C17: a step of create, cancel, detach, adminUpdate or the token request
\* that answers an error (validation, not found, conflict, state) changes no
\* identity, no order and no stored file, and the request it answers has
\* written nothing before: it is a new request, or a suspended one whose
\* first write (the user insert of a create, the insert or update of a token
\* request) is the one refused.
C17_NoPartialMutation ==
  [][(last'.http >= 400) =>
       /\ last'.op \in {"create", "cancel", "detach", "adminUpdate", "token"}
       /\ UNCHANGED <<users, orders, blobs>>
       /\ \A r \in DOMAIN inflight :
            inflight' = inflight (-) SetToBag({r}) =>
              /\ r.op = last'.op
              /\ IF r.op = "create" THEN r.stage = "user" ELSE r.op = "token"]_vars

\* A detach was refused because the file is not in the order, after another
\* detach removed it; the other stored file is still there.
C17_Witness ==
  /\ last.op = "detach" /\ last.code = "NOT_FOUND"
  /\ \E oid \in DOMAIN orders : Len(orders[oid].files) = 1
  /\ blobs # {}

\* Rows of `us` as far as `vs` still has them, with the flag of each.
FlagsKept(us, vs) ==
  \A uid \in DOMAIN us : uid \in DOMAIN vs /\ vs[uid].isVerified = us[uid].isVerified

\* C18 as the specification states it: an identity that is verified never
\* becomes unverified.
C18_NeverUnverified ==
  [][\A uid \in DOMAIN users :
       users[uid].isVerified => users'[uid].isVerified]_vars

\* C18: an identity is created unverified; no customer operation (create,
\* detach, cancel, token request) changes the flag of an existing identity;
\* the administrator's verification request sets the flag of exactly the
\* identities it names to the boolean it carries, true or false.
C18_VerifiedFlag ==
  [][/\ \A uid \in DOMAIN users' \ DOMAIN users : ~users'[uid].isVerified
     /\ last'.op # "verify" => FlagsKept(users, users')
     /\ last'.op = "verify" =>
          \A body \in VerifiedRequests :
            VerifyUsers(body) =>
              \A uid \in DOMAIN users :
                users'[uid].isVerified =
                  IF uid \in body.userIds THEN body.isVerified
                  ELSE users[uid].isVerified]_vars

\* The second identity registered by its first order, was verified, and
\* then rotated its token: the flag is still set.
C18_Witness ==
  /\ Len(users) = 2 /\ users[2].isVerified /\ ~users[1].isVerified
  /\ last.op = "token" /\ last.code = "OK"
  /\ users[2].tokenId = last.token

\* C19: a verification request for identities that are already verified
\* succeeds and leaves every identity as it was; a verification request
\* leaves the identities it does not name as they were.
C19_VerifyIdempotent ==
  [][last'.op = "verify" =>
       \A body \in VerifyBodies :
         VerifyUsers(body) =>
           /\ \A uid \in DOMAIN users \ body.userIds : users'[uid] = users[uid]
           /\ (/\ VerifyCheck(body).code = "OK" /\ body.isVerified
               /\ \A uid \in body.userIds \cap DOMAIN users : users[uid].isVerified) =>
                /\ users' = users
                /\ last'.http = 200 /\ last'.note = "verified"]_vars

\* A verification has just succeeded; the first identity is verified and the
\* second, which it did not name, is still unverified.
C19_Witness ==
  /\ last.op = "verify" /\ last.code = "OK" /\ last.note = "verified"
  /\ users[1].isVerified /\ ~users[2].isVerified
  /\ session

\* C20: no step of cancel or of detach moves an order from PENDING to
\* CANCELLED while the stored paymentStatus of the order is PAID or VERIFIED.
C20_PaidNeverCancelled ==
  [][\A oid \in DOMAIN orders :
       ( /\ last'.op \in {"cancel", "detach"}
         /\ orders[oid].status = "PENDING"
         /\ orders'[oid].status = "CANCELLED" ) =>
         orders[oid].paymentStatus \notin {"PAID", "VERIFIED"}]_vars

\* Names of the descriptors in a file list.
FileNamesOf(files) == { files[i].name : i \in DOMAIN files }

\* C21: a detach that succeeds never brings back a file another detach has
\* removed: the file list it writes holds only names the order still had
\* when it wrote, and not the name it removed, so that two successful
\* detaches of files A and B leave neither A nor B.
C21_NoLostDetach ==
  [][\A r \in DOMAIN inflight :
       DetachWrite(r) =>
         FileNamesOf(orders'[r.oid].files) \subseteq
           FileNamesOf(orders[r.oid].files) \ {r.fileName}]_vars

\* The list `files` with its i-th entry taken out, the others in their order.
RemoveAt(files, i) ==
  [j \in 1..(Len(files) - 1) |-> IF j < i THEN files[j] ELSE files[j + 1]]

\* C22: the list a successful detach writes is the list it read with exactly
\* one entry of the given name taken out and every other entry kept in its
\* place, so the number of files goes down by one, also when several
\* descriptors carry that name.
C22_RemovesExactlyOne ==
  [][\A r \in DOMAIN inflight :
       DetachWrite(r) =>
         \E i \in DOMAIN r.files :
           /\ r.files[i].name = r.fileName
           /\ orders'[r.oid].files = RemoveAt(r.files, i)]_vars

\* The sum of the pages values of a file list, each taken as it is stored.
RECURSIVE PagesAsStored(_)
PagesAsStored(files) ==
  IF files = <<>> THEN 0 ELSE Head(files).pages + PagesAsStored(Tail(files))

\* C23 as the specification states it: after a detach that leaves files the
\* page count is the sum of the pages values of the remaining descriptors.
C23_PagesAreTheSum ==
  [][\A r \in DOMAIN inflight :
       (DetachWrite(r) /\ orders'[r.oid].files # <<>>) =>
         /\ orders'[r.oid].pages = PagesAsStored(orders'[r.oid].files)
         /\ orders'[r.oid].totalAmount =
              PagesAsStored(orders'[r.oid].files) * orders'[r.oid].copies * 5]_vars

\* C23: a detach that leaves files writes, in its one update, the remaining
\* list, a page count that is the sum over the remaining descriptors of
\* their pages, a descriptor with no or zero pages counting 1, and a
\* totalAmount of that count times copies times 5, replacing the page count
\* declared at creation.
C23_Recompute ==
  [][\A r \in DOMAIN inflight :
       (DetachWrite(r) /\ orders'[r.oid].files # <<>>) =>
         /\ last'.code = "OK"
         /\ orders'[r.oid].files = RemoveByName(r.files, r.fileName)
         /\ orders'[r.oid].pages = SumPages(orders'[r.oid].files)
         /\ orders'[r.oid].pages >= Len(orders'[r.oid].files)
         /\ orders'[r.oid].totalAmount =
              SumPages(orders'[r.oid].files) * orders'[r.oid].copies * 5]_vars

\* A detach left one descriptor that has no page count: the order has one
\* page and, with two copies, an amount of 10, in place of the declared 5
\* pages and 50.
C23_Witness ==
  \E oid \in DOMAIN orders :
    /\ last.op = "detach" /\ last.code = "OK" /\ last.oid = oid
    /\ orders[oid].files = << [name |-> "b.pdf", pages |-> 0] >>
    /\ orders[oid].pages = 1 /\ orders[oid].copies = 2 /\ orders[oid].totalAmount = 10

\* C24: the detach that removes the last file of the list it read changes
\* only files (to the empty list) and status (to CANCELLED) of the order; a
\* detach that leaves files changes only files, pages and totalAmount, so
\* the status it read as PENDING is not written; no detach changes copies,
\* paymentStatus, the owning identity, the phone or the token stored on the
\* order, any other order or any identity.
C24_DetachFrame ==
  [][\A r \in DOMAIN inflight :
       DetachWrite(r) =>
         LET old == orders[r.oid]
             new == orders'[r.oid]
         IN  /\ r.seen = "PENDING"
             /\ UNCHANGED users
             /\ \A o \in DOMAIN orders : o # r.oid => orders'[o] = orders[o]
             /\ new.copies = old.copies /\ new.paymentStatus = old.paymentStatus
             /\ new.userId = old.userId /\ new.phone = old.phone
             /\ new.tokenId = old.tokenId
             /\ IF new.files = <<>>
                THEN new = [old EXCEPT !.files = <<>>, !.status = "CANCELLED"]
                ELSE new.status = old.status]_vars

\* The last file of a paid order was detached: the order is CANCELLED with
\* no files and still has the page count 5, the two copies, the amount 50
\* and the payment status it had.
C24_Witness ==
  \E oid \in DOMAIN orders :
    /\ last.op = "detach" /\ last.code = "OK" /\ last.oid = oid
    /\ orders[oid].files = <<>> /\ orders[oid].status = "CANCELLED"
    /\ orders[oid].pages = 5 /\ orders[oid].copies = 2 /\ orders[oid].totalAmount = 50
    /\ orders[oid].paymentStatus = "PAID"

\* C25: the order a successful create persists is PENDING and unpaid, has
\* files, copies >= 1 and pages >= 1, and is owned by an existing identity
\* that has the phone of the request and, as its current token, the token
\* stored on the order and returned in the response; no step changes the
\* owner of an order.
C25_CreatedOrder ==
  [][/\ \A oid \in DOMAIN orders :
          oid \in DOMAIN orders' /\ orders'[oid].userId = orders[oid].userId
     /\ \A r \in DOMAIN inflight :
          CreateOrderWrite(r) =>
            LET new == orders'[Len(orders')]
            IN  /\ Len(orders') = Len(orders) + 1
                /\ last'.http = 201 /\ last'.oid = Len(orders')
                /\ new.status = "PENDING" /\ new.paymentStatus = "PENDING"
                /\ new.files # <<>> /\ new.copies >= 1 /\ new.pages >= 1
                /\ new.userId \in DOMAIN users
                /\ new.phone = r.phone
                /\ users[new.userId].phone = r.phone
                /\ new.tokenId = last'.note
                /\ users[new.userId].tokenId = new.tokenId]_vars

\* C26: every identity that create has written owns an order, or its create
\* is still on its way to insert one: a create that fails leaves no identity
\* behind.
C26_CreateAllOrNothing ==
  \A uid \in DOMAIN users :
    \/ \E oid \in DOMAIN orders : orders[oid].userId = uid
    \/ \E r \in DOMAIN inflight : r.op = "create" /\ r.stage = "order" /\ r.uid = uid

C28_BestEffortDelete ==
  [][\A r \in DOMAIN inflight :
       DetachWrite(r) =>
         /\ last'.code = "OK" /\ last'.http = 200
         /\ r.fileName \notin FileNamesOf(orders'[r.oid].files)
         /\ orders'[r.oid] = DetachUpdate(orders[r.oid], r)
         /\ IF r.fileName \in blobs'
            THEN blobs' = blobs
            ELSE blobs' = blobs \ {r.fileName}]_vars

\* A detach succeeded and recomputed the order while the file it removed
\* is still in the store.
C28_Witness ==
  \E oid \in DOMAIN orders :
    /\ last.op = "detach" /\ last.code = "OK" /\ last.oid = oid
    /\ FileNamesOf(orders[oid].files) = {"b.pdf"}
    /\ orders[oid].pages = 2 /\ orders[oid].status = "PENDING"
    /\ "a.pdf" \in blobs

\* C29: a detach called with the name of a descriptor of a PENDING order,
\* a name the upload returned, passes the checks of the detach and goes on
\* to remove the file.
C29_UploadedNameDetaches ==
  [][\A oid \in DOMAIN orders :
       \A i \in DOMAIN orders[oid].files :
         ( /\ orders[oid].status = "PENDING"
           /\ DetachStart(oid, orders[oid].files[i].name) ) =>
           last'.code = "-" /\ inflight' # inflight]_vars

\* The number of the first check of the body that `body` fails, 0 when it
\* passes all five.
FirstFailedCheck(body) ==
  IF \E f \in {"name", "phone", "copies", "pages", "files", "isNewUser"} :
       f \in body.missing \/ (f \in {"name", "phone"} /\ body[f] = "")
    THEN 1
  ELSE IF body.phone \notin Phones THEN 2
  ELSE IF body.copies < 1 \/ body.pages < 1 THEN 3
  ELSE IF body.files = <<>> THEN 4
  ELSE IF ~body.isNewUser /\ (body.tokenId = "" \/ TokenLen(body.tokenId) < 10) THEN 5
  ELSE 0

\* C30 as the specification states it: a body that fails check 5 only (the
\* token of a returning user is empty or malformed) is answered
\* TOKEN_REQUIRED.
C30_TokenRequiredOtherwise ==
  [][\A body \in ValidationBodies :
       (CreateStart(body) /\ FirstFailedCheck(body) = 5) =>
         last'.code = "TOKEN_REQUIRED"]_vars

\* C30: create answers the error of the first check the body fails, in the
\* order (1) required fields, (2) phone format, (3) copies and pages at
\* least 1, (4) files non-empty, (5) for a returning user a token that is
\* non-empty (TOKEN_REQUIRED otherwise) and well-formed (TOKEN_INVALID, 400,
\* otherwise); a body that fails a check starts no lookup and no write.
C30_ValidationOrder ==
  [][\A body \in ValidationBodies :
       CreateStart(body) =>
         LET k == FirstFailedCheck(body)
         IN  /\ k = 1 => last'.code = "MISSING_FIELDS"
             /\ k = 2 => last'.code = "PHONE_INVALID"
             /\ k = 3 => last'.code = "VALIDATION" /\ last'.note \in {"copies", "pages"}
             /\ k = 4 => last'.code = "VALIDATION" /\ last'.note = "files"
             /\ k = 5 => last'.code = IF body.tokenId = "" THEN "TOKEN_REQUIRED"
                                      ELSE "TOKEN_INVALID"
             /\ k # 0 => /\ last'.http = 400
                         /\ UNCHANGED <<users, orders, inflight>>
             /\ k = 0 => last'.http # 400 \/ last'.code = "TOKEN_MISMATCH"]_vars

\* An order request was refused for its malformed token.
C30_Witness ==
  /\ last.op = "create" /\ last.code = "TOKEN_INVALID" /\ last.http = 400
  /\ last.note = "tokenId"


====
